---------------------------- MODULE Spec2Model ----------------------------
(***************************************************************************)
(* A model of drcleaner.py: the markdown citation cleaner.                 *)
(*                                                                         *)
(* Text is a sequence of one-character strings.  Offsets are Python's:     *)
(* 0-based, spans half-open.  An optional value (Python's None or a value) *)
(* is a sequence of length 0 or 1.                                         *)
(***************************************************************************)
EXTENDS Integers, Sequences, FiniteSets, TLC

(***************************************************************************)
(* Bounds of the model.                                                    *)
(***************************************************************************)
\* the longest input document of a single run, in fragments
MaxPieces == 3
\* the number of times the script is run against the same cache directory
MaxRuns == 2
\* the longest input document of repeated runs, in fragments
MaxRunPieces == 2
\* the largest thread pool of the runs whose pool is smaller than their work
MaxPool == 2
\* the longest message content of the service, in pieces
MaxContentPieces == 4
\* the longest input document of the runs that try the pattern, in pieces
MaxPatternPieces == 4

(***************************************************************************)
(* Python values and string primitives.                                    *)
(***************************************************************************)
None == <<>>
Some(x) == <<x>>
IsSome(o) == Len(o) = 1
Get(o) == o[1]

\* s[a:b] for a, b >= 0: offsets past the end are clamped to the end
Slice(s, a, b) ==
    LET lo == IF a > Len(s) THEN Len(s) ELSE a
        hi == IF b > Len(s) THEN Len(s) ELSE b
    IN  IF lo >= hi THEN <<>> ELSE SubSeq(s, lo + 1, hi)

Digits == <<"0", "1", "2", "3", "4", "5", "6", "7", "8", "9">>
IsDigit(c) == \E d \in 1..10 : Digits[d] = c

\* str(n) for n >= 0
RECURSIVE IntToStr(_)
IntToStr(n) ==
    IF n < 10 THEN <<Digits[n + 1]>>
    ELSE IntToStr(n \div 10) \o <<Digits[(n % 10) + 1]>>

\* the characters str.strip() and str.rstrip() remove
Whitespace == {" ", "\n", "\t", "\r"}

RECURSIVE RStrip(_)
RStrip(s) ==
    IF s # <<>> /\ s[Len(s)] \in Whitespace
    THEN RStrip(SubSeq(s, 1, Len(s) - 1))
    ELSE s

RECURSIVE LStrip(_)
LStrip(s) ==
    IF s # <<>> /\ s[1] \in Whitespace THEN LStrip(Tail(s)) ELSE s

Strip(s) == RStrip(LStrip(s))

StartsWith(s, p) == Len(s) >= Len(p) /\ SubSeq(s, 1, Len(p)) = p

\* the offsets >= from at which p occurs in s
OccurrencesFrom(s, p, from) ==
    {i \in from..(Len(s) - Len(p)) : p = <<>> \/ (s[i + 1] = p[1] /\ Slice(s, i, i + Len(p)) = p)}

\* s.find(p, from): the least offset >= from at which p occurs, or -1
Find(s, p, from) ==
    LET at == OccurrencesFrom(s, p, from)
    IN  IF at = {} THEN -1 ELSE CHOOSE i \in at : \A j \in at : i <= j

(***************************************************************************)
(* Configuration (drcleaner.py, lines 12-25).                              *)
(***************************************************************************)
MAX_WORKERS == 32

\* APA_PROMPT_TEMPLATE.format(url): the fixed text around the URL is kept as
\* two opaque pieces, the URL in between character by character
APA_PROMPT(url) == <<"APA_PROMPT_TEMPLATE[:{}]">> \o url \o <<"APA_PROMPT_TEMPLATE[{}:]">>

\* One match of SOURCE_PATTERN = \(\[([^\]]+)\]\(([^\)]+)\)\) anchored at
\* offset i, as an optional match object.  A character class that excludes
\* its own terminator leaves the regex engine no choice: group 1 runs to the
\* first "]" and group 2 to the first ")".
SOURCE_PATTERN_match(text, i) ==
    LET n == Len(text)
        ch(k) == text[k + 1]
    IN  IF i + 1 < n /\ ch(i) = "(" /\ ch(i + 1) = "["
        THEN LET j == Find(text, <<"]">>, i + 2)
             IN  IF j > i + 2 /\ j + 1 < n /\ ch(j + 1) = "("
                 THEN LET k == Find(text, <<")">>, j + 2)
                      IN  IF k > j + 2 /\ k + 1 < n /\ ch(k + 1) = ")"
                          THEN Some([start |-> i, end |-> k + 2,
                                     group1 |-> Slice(text, i + 2, j),
                                     group2 |-> Slice(text, j + 2, k)])
                          ELSE None
                 ELSE None
        ELSE None

\* finditer with the scan resumed one character after a match's start
RECURSIVE finditer_overlapping(_, _)
finditer_overlapping(text, pos) ==
    LET starts == {i \in pos..(Len(text) - 1) : IsSome(SOURCE_PATTERN_match(text, i))}
    IN  IF starts = {} THEN <<>>
        ELSE LET m == Get(SOURCE_PATTERN_match(text, CHOOSE i \in starts : \A j \in starts : i <= j))
             IN  <<m>> \o finditer_overlapping(text, m.start + 1)

\* list(SOURCE_PATTERN.finditer(text)) from offset pos on: the scan takes
\* the match at the least offset that has one and goes on from its end
RECURSIVE finditer(_, _)
finditer(text, pos) ==
    LET starts == {i \in pos..(Len(text) - 1) : IsSome(SOURCE_PATTERN_match(text, i))}
    IN  IF starts = {} THEN <<>>
        ELSE LET m == Get(SOURCE_PATTERN_match(text, CHOOSE i \in starts : \A j \in starts : i <= j))
             IN  <<m>> \o finditer(text, m.end)

(***************************************************************************)
(* configure_perplexity                                                    *)
(***************************************************************************)
configure_perplexity(api_key) == IF api_key = "" THEN None ELSE Some(api_key)

(***************************************************************************)
(* get_apa_citation.  The call of the cached _call_perplexity_api is a     *)
(* step of the worker; `outcome' is what that call did: it raised, or it   *)
(* returned a response                                                     *)
(*   [status_code, json |-> [valid, choices, error]]                       *)
(* where json.valid says whether response.json() parses, choices is the    *)
(* optional 'choices' list, each element the optional message content, and *)
(* error the optional 'error' member.                                      *)
(***************************************************************************)
Raised == [raised |-> TRUE]
Returned(response) == [raised |-> FALSE, response |-> response]

PLACEHOLDER_NOT_CONFIGURED ==
    <<"[","P","e","r","p","l","e","x","i","t","y"," ","A","P","I"," ","n","o","t"," ",
      "c","o","n","f","i","g","u","r","e","d","]">>
PLACEHOLDER_FAILED_PREFIX ==
    <<"[","A","P","A"," ","g","e","n","e","r","a","t","i","o","n"," ","f","a","i","l","e","d",
      " ","f","o","r"," ","U","R","L",":"," ">>
PLACEHOLDER_ERROR_PREFIX ==
    <<"[","A","P","A"," ","g","e","n","e","r","a","t","i","o","n"," ","e","r","r","o","r",
      " ","f","o","r"," ","U","R","L",":"," ">>
STATUS_MESSAGE_PREFIX ==
    <<"P","e","r","p","l","e","x","i","t","y"," ","A","P","I"," ","r","e","t","u","r","n","e","d",
      " ","s","t","a","t","u","s"," ","c","o","d","e"," ">>

\* re.search(r'\[\[\[(.*?)\]\]\]', citation, re.DOTALL): optional group(1)
triple_bracket_match(citation) ==
    LET i == Find(citation, <<"[", "[", "[">>, 0)
    IN  IF i < 0 THEN None
        ELSE LET j == Find(citation, <<"]", "]", "]">>, i + 3)
             IN  IF j < 0 THEN None ELSE Some(Slice(citation, i + 3, j))

\* lines 103-104
strip_list_marker(citation) ==
    IF StartsWith(citation, <<"-", " ">>) \/ StartsWith(citation, <<"*", " ">>)
    THEN Slice(citation, 2, Len(citation))
    ELSE citation

\* the condition of line 105, evaluated left to right: "yes", "no", or
\* "IndexError" when an index past the end of the string is read
numbered_prefix(citation) ==
    IF citation = <<>> THEN "no"
    ELSE IF ~IsDigit(citation[1]) THEN "no"
    ELSE IF Len(citation) < 2 THEN "IndexError"
    ELSE IF citation[2] # "." THEN "no"
    ELSE IF Len(citation) < 3 THEN "IndexError"
    ELSE IF citation[3] # " " THEN "no"
    ELSE "yes"

\* lines 93-107: the citation of a response content, as an optional string
\* (None: an exception was raised on the way)
extract_citation(content) ==
    LET stripped == Strip(content)
        m == triple_bracket_match(stripped)
        inner == IF IsSome(m) THEN Strip(Get(m)) ELSE stripped
        unlisted == strip_list_marker(inner)
        np == numbered_prefix(unlisted)
    IN  IF np = "IndexError" THEN None
        ELSE IF np = "yes" THEN Some(Slice(unlisted, 3, Len(unlisted)))
        ELSE Some(unlisted)

\* lines 112-116
error_message(response) ==
    STATUS_MESSAGE_PREFIX \o IntToStr(response.status_code)
        \o (IF response.json.valid /\ IsSome(response.json.error)
            THEN <<":", " ">> \o Get(response.json.error)
            ELSE <<>>)

get_apa_citation(api_key, url, outcome) ==
    IF api_key = "" THEN PLACEHOLDER_NOT_CONFIGURED
    ELSE IF outcome.raised THEN PLACEHOLDER_ERROR_PREFIX \o url \o <<"]">>
    ELSE LET response == outcome.response
             data == response.json
         IN  IF response.status_code = 200
             THEN IF ~data.valid THEN PLACEHOLDER_ERROR_PREFIX \o url \o <<"]">>
                  ELSE IF IsSome(data.choices) /\ Len(Get(data.choices)) > 0
                  THEN LET first == Get(data.choices)[1]
                       IN  IF ~IsSome(first)
                           THEN PLACEHOLDER_ERROR_PREFIX \o url \o <<"]">>
                           ELSE LET citation == extract_citation(Get(first))
                                IN  IF IsSome(citation) THEN Get(citation)
                                    ELSE PLACEHOLDER_ERROR_PREFIX \o url \o <<"]">>
                  ELSE PLACEHOLDER_FAILED_PREFIX \o url \o <<"]">>
             ELSE PLACEHOLDER_FAILED_PREFIX \o url \o <<" ", "-", " ">>
                      \o error_message(response) \o <<"]">>

(***************************************************************************)
(* reformat_markdown: the sequential parts.                                *)
(***************************************************************************)
\* collect_unique_sources with one entry per marker, repeated URLs included
RECURSIVE collect_every_source(_, _)
collect_every_source(matches, unique) ==
    IF matches = <<>> THEN unique
    ELSE collect_every_source(
             Tail(matches),
             Append(unique, [url |-> Head(matches).group2, apa |-> None, number |-> None]))

\* lines 160-164: the OrderedDict, as the sequence of its items in
\* insertion order
RECURSIVE collect_unique_sources(_, _)
collect_unique_sources(matches, unique) ==
    IF matches = <<>> THEN unique
    ELSE LET url == Head(matches).group2
         IN  collect_unique_sources(
                 Tail(matches),
                 IF \E i \in DOMAIN unique : unique[i].url = url
                 THEN unique
                 ELSE Append(unique, [url |-> url, apa |-> None, number |-> None]))

\* assign_numbers with the last key left for later
assign_numbers_but_last(unique) ==
    [i \in DOMAIN unique |->
        IF i < Len(unique) THEN [unique[i] EXCEPT !.number = Some(i)] ELSE unique[i]]

\* assign_numbers with the numbers counted down from the last key
assign_numbers_reversed(unique) ==
    [i \in DOMAIN unique |-> [unique[i] EXCEPT !.number = Some(Len(unique) + 1 - i)]]

\* lines 169-172
assign_numbers(unique) ==
    [i \in DOMAIN unique |-> [unique[i] EXCEPT !.number = Some(i)]]

\* url in unique_sources
has_source(unique, url) == \E i \in DOMAIN unique : unique[i].url = url
\* unique_sources[url]
source_of(unique, url) == unique[CHOOSE i \in DOMAIN unique : unique[i].url = url]

\* citation_link with the anchor of the next source
citation_link_next_anchor(number) ==
    <<"[", "[">> \o IntToStr(number) \o <<"]", "]", "(", "#", "s", "o", "u", "r", "c", "e", "-">>
        \o IntToStr(number + 1) \o <<")">>

\* line 202
citation_link(number) ==
    <<"[", "[">> \o IntToStr(number) \o <<"]", "]", "(", "#", "s", "o", "u", "r", "c", "e", "-">>
        \o IntToStr(number) \o <<")">>

\* replacement_order front to back
replacement_order_forward(matches) == matches

\* line 198: the order in which the matches are replaced
replacement_order(matches) ==
    [i \in DOMAIN matches |-> matches[Len(matches) + 1 - i]]

\* lines 198-208: the replacement loop over `order'
RECURSIVE replace_matches(_, _, _)
replace_matches(modified_content, order, unique) ==
    IF order = <<>> THEN modified_content
    ELSE LET match == Head(order)
             url == match.group2
         IN  IF has_source(unique, url)
             THEN LET number == Get(source_of(unique, url).number)
                  IN  replace_matches(
                          Slice(modified_content, 0, match.start) \o citation_link(number)
                              \o Slice(modified_content, match.end, Len(modified_content)),
                          Tail(order), unique)
             ELSE replace_matches(modified_content, Tail(order), unique)

\* line 229: sorted(..., key=number), a stable insertion sort
RECURSIVE insert_by_number(_, _)
insert_by_number(sorted, item) ==
    IF sorted = <<>> THEN <<item>>
    ELSE IF Get(sorted[Len(sorted)].number) <= Get(item.number)
    THEN Append(sorted, item)
    ELSE Append(insert_by_number(SubSeq(sorted, 1, Len(sorted) - 1), item),
                sorted[Len(sorted)])

RECURSIVE sorted_sources(_)
sorted_sources(unique) ==
    IF unique = <<>> THEN <<>>
    ELSE insert_by_number(sorted_sources(SubSeq(unique, 1, Len(unique) - 1)),
                          unique[Len(unique)])

SOURCES_HEADER == <<"\n", "\n", "#", " ", "S", "o", "u", "r", "c", "e", "s", "\n", "\n">>

\* an f-string's rendering of an optional string
FormatOptional(o) == IF IsSome(o) THEN Get(o) ELSE <<"N", "o", "n", "e">>

\* source_line with the anchor counted from 0
source_line_zero_based(data) ==
    <<"<", "a", " ", "i", "d", "=", "\"", "s", "o", "u", "r", "c", "e", "-">>
        \o IntToStr(Get(data.number) - 1) \o <<"\"", ">", "<", "/", "a", ">">>
        \o IntToStr(Get(data.number)) \o <<".", " ">> \o FormatOptional(data.apa) \o <<"\n">>

\* line 235
source_line(data) ==
    <<"<", "a", " ", "i", "d", "=", "\"", "s", "o", "u", "r", "c", "e", "-">>
        \o IntToStr(Get(data.number)) \o <<"\"", ">", "<", "/", "a", ">">>
        \o IntToStr(Get(data.number)) \o <<".", " ">> \o FormatOptional(data.apa) \o <<"\n">>

\* lines 227-235
RECURSIVE sources_list_md(_)
sources_list_md(sorted) ==
    IF sorted = <<>> THEN SOURCES_HEADER
    ELSE sources_list_md(SubSeq(sorted, 1, Len(sorted) - 1)) \o source_line(sorted[Len(sorted)])

\* lines 196-237
build_final_content(content, matches, unique) ==
    RStrip(replace_matches(content, replacement_order(matches), unique))
        \o sources_list_md(sorted_sources(unique))

\* stored_apa without the replacement of an empty citation
stored_apa_unchecked(url, future) ==
    IF future.raised THEN <<"[", "F", "a", "i", "l", "e", "d", " ", "t", "o", " ", "g", "e", "n", "e", "r", "a", "t", "e",
                             " ", "A", "P", "A", " ", "f", "o", "r", " ">> \o url \o <<"]">>
    ELSE future.result

\* lines 186-191: the citation stored for a completed future
stored_apa(url, future) ==
    IF future.raised THEN <<"[", "F", "a", "i", "l", "e", "d", " ", "t", "o", " ", "g", "e", "n", "e", "r", "a", "t", "e",
                             " ", "A", "P", "A", " ", "f", "o", "r", " ">> \o url \o <<"]">>
    ELSE IF future.result # <<>> THEN future.result
    ELSE <<"[", "F", "a", "i", "l", "e", "d", " ", "t", "o", " ", "g", "e", "n", "e", "r", "a", "t", "e",
           " ", "A", "P", "A", " ", "f", "o", "r", " ">> \o url \o <<"]">>

(***************************************************************************)
(* The environment: the input documents, the API keys given on the command *)
(* line, and the responses of the Perplexity service.                      *)
(***************************************************************************)
\* the pieces input documents are made of: three markers of the concurrency
\* scenario (a repeated URL), a marker with a longer label and a shorter
\* URL followed by trailing whitespace, and a link without the outer
\* parentheses
Fragments ==
    << <<"A", " ", "(", "[", "X", "]", "(", "h", "t", "t", "p", "s", ":", "/", "/", "a", ".", "c", "o", "m", ")", ")">>,
       <<" ", "B", " ", "(", "[", "Y", "]", "(", "h", "t", "t", "p", "s", ":", "/", "/", "b", ".", "c", "o", "m", ")", ")">>,
       <<" ", "C", " ", "(", "[", "X", "]", "(", "h", "t", "t", "p", "s", ":", "/", "/", "a", ".", "c", "o", "m", ")", ")">>,
       <<" ", "(", "[", "L", "o", "n", "g", "]", "(", "u", ")", ")", " ", "\n">>,
       <<" ", "[", "X", "]", "(", "u", ")">> >>

RECURSIVE Concat(_)
Concat(pieces) ==
    IF pieces = <<>> THEN <<>> ELSE Head(pieces) \o Concat(Tail(pieces))

\* the documents of at most n fragments
DocumentsOf(n) ==
    UNION {{Concat([i \in 1..m |-> Fragments[choice[i]]]) :
                choice \in [1..m -> DOMAIN Fragments]} : m \in 0..n}

\* the pieces of the documents that try SOURCE_PATTERN: its delimiters one
\* by one, a marker, and the two malformed markers of test_source_pattern_regex
PatternPieces ==
    << <<"(">>, <<")">>, <<"[">>, <<"]">>, <<"x">>,
       <<"(", "[", "x", "]", "(", "u", ")", ")">>,
       <<"[", "x", "]", "(", "u", ")">>,
       <<"(", "x", ")", "(", "u", ")">> >>

\* the documents of at most n such pieces
PatternDocumentsOf(n) ==
    UNION {{Concat([i \in 1..m |-> PatternPieces[choice[i]]]) :
                choice \in [1..m -> DOMAIN PatternPieces]} : m \in 0..n}

\* args.api_key or the environment variable: none, or one of two keys
ApiKeys == {"", "key1", "key2"}

\* the keys of a first run: with the cache empty the two keys are
\* interchangeable, and the second one is left to the later runs
FirstApiKeys == ApiKeys \ {"key2"}

JsonChoices(content) ==
    [valid |-> TRUE, choices |-> Some(<<Some(content)>>), error |-> None]

\* what requests.post may return: a delimited citation, a bare citation, an
\* empty content, a body without choices, an error status
Responses ==
    {[status_code |-> 200,
      json |-> JsonChoices(<<"[", "[", "[", "C", "i", "t", "e", "-", "A", "]", "]", "]">>)],
     [status_code |-> 200, json |-> JsonChoices(<<"C", "i", "t", "e", "-", "B">>)],
     [status_code |-> 200, json |-> JsonChoices(<<>>)],
     [status_code |-> 200, json |-> [valid |-> TRUE, choices |-> None, error |-> None]],
     [status_code |-> 500,
      json |-> [valid |-> TRUE, choices |-> None, error |-> Some(<<"o", "o", "p", "s">>)]]}

\* the pieces the message contents of a talkative service are made of: the
\* delimiters asked for, list markers, a numbered prefix and its parts
ContentPieces ==
    << <<"[", "[", "[">>, <<"]", "]", "]">>, <<"-", " ">>, <<"*", " ">>, <<"1", ".", " ">>,
       <<"1">>, <<".">>, <<" ">>, <<"c">> >>

\* the contents of at most n pieces
ContentsOf(n) ==
    UNION {{Concat([i \in 1..m |-> ContentPieces[choice[i]]]) :
                choice \in [1..m -> DOMAIN ContentPieces]} : m \in 0..n}

\* a service that answers with status 200 and one choice of any such content
ContentResponses ==
    {[status_code |-> 200, json |-> JsonChoices(c)] : c \in ContentsOf(MaxContentPieces)}

\* what requests.post may return from the service of that name
ResponsesOf(name) == IF name = "talkative" THEN ContentResponses ELSE Responses

(***************************************************************************)
(* The state.                                                              *)
(***************************************************************************)
VARIABLES
    input_file,      \* the content of the input file, None when it cannot be read
    output_file,     \* the content of the output file, None while never written
    cache,           \* joblib's store: (api_key, url, prompt) -> response
    net_issued,      \* history: key -> requests.post calls issued
    net_returned,    \* history: key -> requests.post calls that returned a response
    run,             \* the number of this run of the script
    pc,              \* where reformat_markdown is
    outcome,         \* how this run ended
    api_key,         \* this run's api_key argument
    content,         \* optional: the text read
    matches,         \* list(SOURCE_PATTERN.finditer(content))
    unique_sources,  \* the OrderedDict, as its items in insertion order
    futures,         \* one future per submitted url, in submission order
    yielded,         \* the futures as_completed has yielded
    final_content,   \* optional: the text built for the output
    calls,           \* history: url -> get_apa_citation calls of this run
    cache_accesses,  \* history: cache lookups and stores of this run
    max_workers,     \* the size of the thread pool this run creates
    service,         \* the Perplexity service of this run, by name
    delay_elapsed,   \* API_REQUEST_DELAY has passed since the last requests.post call
    peer             \* a concurrent run of the script: key -> its call, "out" or "over"

vars == <<input_file, output_file, cache, net_issued, net_returned, run, pc, outcome,
          api_key, content, matches, unique_sources, futures, yielded, final_content,
          calls, cache_accesses, max_workers, service, delay_elapsed, peer>>

files == <<input_file, output_file>>
store == <<cache, net_issued, net_returned>>
locals == <<content, matches, unique_sources, futures, yielded, final_content>>
setting == <<max_workers, service>>

Count(f, k) == IF k \in DOMAIN f THEN f[k] ELSE 0
Incremented(f, k) == (k :> (Count(f, k) + 1)) @@ f

\* the arguments _call_perplexity_api is memoized on
cache_key(key, url) == <<key, url, APA_PROMPT(url)>>

\* cache_store with the result not kept
cache_store_dropped(c, k, response) == c

\* joblib's store of a computed result
cache_store(c, k, response) == (k :> response) @@ c

PendingFuture ==
    [state |-> "pending", event |-> "none", outcome |-> None, raised |-> FALSE, result |-> <<>>]

\* a future whose get_apa_citation call returned
Finished(event, key, url, call_outcome) ==
    [state |-> "finished", event |-> event, outcome |-> Some(call_outcome), raised |-> FALSE,
     result |-> get_apa_citation(key, url, call_outcome)]

\* a future whose worker raised
Failed ==
    [state |-> "finished", event |-> "worker_error", outcome |-> None, raised |-> TRUE,
     result |-> <<>>]

\* the futures whose requests.post call is out and yet to return
Awaited == {i \in DOMAIN futures : futures[i].state = "running"}

\* the futures a pool thread is busy with: their requests.post call is out,
\* and is yet to return ("running") or never will ("blocked")
Running == {i \in DOMAIN futures : futures[i].state \in {"running", "blocked"}}

\* the first run of the script, the cache directory empty: the input file
\* holds one of `documents' or cannot be read, the key is one of `keys', the
\* pool has one of the sizes `pools', the service is the one named
InitWith(documents, keys, pools, name) ==
    /\ input_file \in {None} \cup {Some(d) : d \in documents}
    /\ output_file = None
    /\ cache = <<>>
    /\ net_issued = <<>>
    /\ net_returned = <<>>
    /\ run = 1
    /\ pc = "start"
    /\ outcome = "running"
    /\ api_key \in keys
    /\ content = None
    /\ matches = <<>>
    /\ unique_sources = <<>>
    /\ futures = <<>>
    /\ yielded = {}
    /\ final_content = None
    /\ calls = <<>>
    /\ cache_accesses = 0
    /\ max_workers \in pools
    /\ service = name
    /\ delay_elapsed = TRUE
    /\ peer = <<>>

\* the script as it is configured, on an input file of at most n fragments
InitOf(n) == InitWith(DocumentsOf(n), FirstApiKeys, {MAX_WORKERS}, "reference")

Init == InitOf(MaxPieces)

InitRuns == InitOf(MaxRunPieces)

\* two runs at once on an input file of at most MaxRunPieces fragments
InitShared == InitWith(DocumentsOf(MaxRunPieces), {"key1"}, {MAX_WORKERS}, "reference")

\* SOURCE_PATTERN tried on the documents of its own pieces
InitPattern ==
    InitWith(PatternDocumentsOf(MaxPatternPieces), {"key1"}, {MAX_WORKERS}, "reference")

\* one marker, or none, and a service of many contents
InitCitation ==
    InitWith({Fragments[1], Fragments[5]}, {"key1"}, {MAX_WORKERS}, "talkative")

\* the documents of the runs with a small pool: three markers of three
\* URLs, and a text without markers
PoolDocuments == {Fragments[1] \o Fragments[2] \o Fragments[4], Fragments[5]}

\* MAX_WORKERS set to 1..MaxPool, fewer workers than the document has URLs
InitPool == InitWith(PoolDocuments, {"key1"}, 1..MaxPool, "reference")

(***************************************************************************)
(* reformat_markdown, the main thread.                                     *)
(***************************************************************************)
Return(result) ==
    /\ pc' = "done"
    /\ outcome' = result

\* lines 248-269: the exit status of the process for a run that ended with
\* `result'.  reformat_markdown returns None on each of its paths and lets
\* no exception out, and the script calls sys.exit nowhere: the interpreter
\* runs off the end of the file
exit_status(result) == 0

\* lines 132-135
Configure ==
    /\ pc = "start"
    /\ IF configure_perplexity(api_key) = None
       THEN Return("config_error")
       ELSE pc' = "configured" /\ UNCHANGED outcome
    /\ UNCHANGED <<files, store, run, api_key, setting, delay_elapsed, peer, locals, calls,
                   cache_accesses>>

\* lines 137-148
ReadInput ==
    /\ pc = "configured"
    /\ IF input_file = None
       THEN Return("input_error") /\ UNCHANGED <<content, matches>>
       ELSE /\ content' = input_file
            /\ matches' = finditer(Get(input_file), 0)
            /\ pc' = "matched"
            /\ UNCHANGED outcome
    /\ UNCHANGED <<files, store, run, api_key, setting, delay_elapsed, peer, unique_sources,
                   futures, yielded,
                   final_content, calls, cache_accesses>>

\* no_matches with the early return never taken
no_matches_never(found) == FALSE

\* line 149
no_matches(found) == found = <<>>

\* lines 149-155
NoSources ==
    /\ pc = "matched"
    /\ no_matches(matches)
    /\ Return("no_sources")
    /\ UNCHANGED <<files, store, run, api_key, setting, delay_elapsed, peer, locals, calls,
                   cache_accesses>>

\* lines 159-164
CollectSources ==
    /\ pc = "matched"
    /\ ~no_matches(matches)
    /\ unique_sources' = collect_unique_sources(matches, <<>>)
    /\ pc' = "collected"
    /\ UNCHANGED <<files, store, run, outcome, api_key, setting, delay_elapsed, peer, content,
                   matches, futures, yielded,
                   final_content, calls, cache_accesses>>

\* lines 168-172
AssignNumbers ==
    /\ pc = "collected"
    /\ unique_sources' = assign_numbers(unique_sources)
    /\ pc' = IF unique_sources = <<>> THEN "as_completed" ELSE "submitting"
    /\ UNCHANGED <<files, store, run, outcome, api_key, setting, delay_elapsed, peer, content,
                   matches, futures, yielded,
                   final_content, calls, cache_accesses>>

\* lines 178-181: executor.submit for the next key of unique_sources
Submit ==
    /\ pc = "submitting"
    /\ futures' = Append(futures, PendingFuture)
    /\ pc' = IF Len(futures') >= Len(unique_sources) THEN "as_completed" ELSE "submitting"
    /\ UNCHANGED <<files, store, run, outcome, api_key, setting, delay_elapsed, peer, content,
                   matches, unique_sources,
                   yielded, final_content, calls, cache_accesses>>

\* future_to_url[future]
future_to_url(unique, i) == unique[i].url

\* set_apa with the citation stored in every entry
set_apa_everywhere(unique, url, apa) ==
    [j \in DOMAIN unique |-> [unique[j] EXCEPT !.apa = Some(apa)]]

\* unique_sources[url]['apa'] = apa
set_apa(unique, url, apa) ==
    LET at == CHOOSE j \in DOMAIN unique : unique[j].url = url
    IN  [j \in DOMAIN unique |->
            IF j = at THEN [unique[j] EXCEPT !.apa = Some(apa)] ELSE unique[j]]

\* lines 183-191: as_completed yields a finished future not yet yielded
AsCompleted(i) ==
    /\ pc = "as_completed"
    /\ i \in DOMAIN futures \ yielded
    /\ futures[i].state = "finished"
    /\ LET url == future_to_url(unique_sources, i)
       IN  unique_sources' = set_apa(unique_sources, url, stored_apa(url, futures[i]))
    /\ yielded' = yielded \cup {i}
    /\ UNCHANGED <<files, store, run, pc, outcome, api_key, setting, delay_elapsed, peer,
                   content, matches, futures,
                   final_content, calls, cache_accesses>>

\* as_completed_exhausted with the loop left after the first future
as_completed_first(submitted, done) == done # {}

\* line 183: the as_completed iterator has yielded every future
as_completed_exhausted(submitted, done) == done = DOMAIN submitted

\* line 176: leaving the with block is executor.shutdown(wait=True)
shutdown_complete(submitted) == \A i \in DOMAIN submitted : submitted[i].state = "finished"

\* lines 176-193: the end of the loop and of the with block
Join ==
    /\ pc = "as_completed"
    /\ as_completed_exhausted(futures, yielded)
    /\ shutdown_complete(futures)
    /\ pc' = "joined"
    /\ UNCHANGED <<files, store, run, outcome, api_key, setting, delay_elapsed, peer, locals,
                   calls, cache_accesses>>

\* lines 196-237
Rewrite ==
    /\ pc = "joined"
    /\ final_content' = Some(build_final_content(Get(content), matches, unique_sources))
    /\ pc' = "rewritten"
    /\ UNCHANGED <<files, store, run, outcome, api_key, setting, delay_elapsed, peer, content,
                   matches, unique_sources,
                   futures, yielded, calls, cache_accesses>>

\* lines 239-242
WriteOutput ==
    /\ pc = "rewritten"
    /\ output_file' = final_content
    /\ Return("written")
    /\ UNCHANGED <<input_file, store, run, api_key, setting, delay_elapsed, peer, locals,
                   calls, cache_accesses>>

\* lines 243-244: open or write raised
WriteOutputError ==
    /\ pc = "rewritten"
    /\ Return("write_error")
    /\ UNCHANGED <<files, store, run, api_key, setting, delay_elapsed, peer, locals, calls,
                   cache_accesses>>

(***************************************************************************)
(* The worker threads of the pool: one get_apa_citation call per future.   *)
(***************************************************************************)
\* lines 79-88: a worker takes the future and calls the cached function;
\* a cached key is answered from the store, any other goes to the network
WorkerStart(i) ==
    /\ i \in DOMAIN futures
    /\ futures[i].state = "pending"
    /\ Cardinality(Running) < max_workers
    /\ LET url == future_to_url(unique_sources, i)
           k == cache_key(api_key, url)
       IN  /\ calls' = Incremented(calls, url)
           /\ IF k \in DOMAIN cache
              THEN /\ futures' = [futures EXCEPT
                                    ![i] = Finished("hit", api_key, url, Returned(cache[k]))]
                   /\ UNCHANGED <<net_issued, delay_elapsed>>
              ELSE /\ futures' = [futures EXCEPT ![i].state = "running"]
                   /\ net_issued' = Incremented(net_issued, k)
                   /\ delay_elapsed' = FALSE
    /\ cache_accesses' = cache_accesses + 1
    /\ UNCHANGED <<files, cache, net_returned, run, pc, outcome, api_key, setting, peer,
                   content, matches, unique_sources, yielded, final_content>>

\* lines 75-77, 88-121: requests.post returns, the worker sleeps for
\* API_REQUEST_DELAY, the response is stored and the citation made of it
WorkerResponse(i, response) ==
    /\ i \in DOMAIN futures
    /\ futures[i].state = "running"
    /\ LET url == future_to_url(unique_sources, i)
           k == cache_key(api_key, url)
       IN  /\ cache' = cache_store(cache, k, response)
           /\ net_returned' = Incremented(net_returned, k)
           /\ futures' = [futures EXCEPT
                            ![i] = Finished("response", api_key, url, Returned(response))]
    /\ cache_accesses' = cache_accesses + 1
    /\ delay_elapsed' = TRUE
    /\ UNCHANGED <<files, net_issued, run, pc, outcome, api_key, setting, peer, content,
                   matches, unique_sources, yielded, final_content, calls>>

\* lines 75, 123-125: requests.post raises; nothing is stored
WorkerNetworkError(i) ==
    /\ i \in DOMAIN futures
    /\ futures[i].state = "running"
    /\ futures' = [futures EXCEPT
                     ![i] = Finished("network_error", api_key,
                                     future_to_url(unique_sources, i), Raised)]
    /\ UNCHANGED <<files, store, run, pc, outcome, api_key, setting, delay_elapsed, peer,
                   content, matches,
                   unique_sources, yielded, final_content, calls, cache_accesses>>

\* lines 88, 123-125: the cache directory cannot be read
WorkerCacheError(i) ==
    /\ i \in DOMAIN futures
    /\ futures[i].state = "pending"
    /\ Cardinality(Running) < max_workers
    /\ calls' = Incremented(calls, future_to_url(unique_sources, i))
    /\ futures' = [futures EXCEPT
                     ![i] = Finished("cache_error", api_key,
                                     future_to_url(unique_sources, i), Raised)]
    /\ cache_accesses' = cache_accesses + 1
    /\ UNCHANGED <<files, store, run, pc, outcome, api_key, setting, delay_elapsed, peer,
                   content, matches,
                   unique_sources, yielded, final_content>>

\* lines 84-85, 189-191: an exception leaves get_apa_citation outside its
\* try block (a MemoryError, say) and is kept by the future
WorkerError(i) ==
    /\ i \in DOMAIN futures
    /\ futures[i].state = "pending"
    /\ Cardinality(Running) < max_workers
    /\ calls' = Incremented(calls, future_to_url(unique_sources, i))
    /\ futures' = [futures EXCEPT ![i] = Failed]
    /\ UNCHANGED <<files, store, run, pc, outcome, api_key, setting, delay_elapsed, peer,
                   content, matches,
                   unique_sources, yielded, final_content, cache_accesses>>

\* line 75: requests.post is called without a timeout; the service holds
\* the connection and never answers, and the call never returns
WorkerBlocked(i) ==
    /\ i \in DOMAIN futures
    /\ futures[i].state = "running"
    /\ futures' = [futures EXCEPT ![i].state = "blocked"]
    /\ UNCHANGED <<files, store, run, pc, outcome, api_key, setting, delay_elapsed, peer,
                   content, matches, unique_sources, yielded, final_content, calls,
                   cache_accesses>>

(***************************************************************************)
(* The script is run again: a new process, the same files and cache.       *)
(***************************************************************************)
Restart ==
    /\ pc = "done"
    /\ run < MaxRuns
    /\ run' = run + 1
    /\ pc' = "start"
    /\ outcome' = "running"
    /\ api_key' \in ApiKeys
    /\ content' = None
    /\ matches' = <<>>
    /\ unique_sources' = <<>>
    /\ futures' = <<>>
    /\ yielded' = {}
    /\ final_content' = None
    /\ calls' = <<>>
    /\ cache_accesses' = 0
    /\ UNCHANGED <<files, store, setting, delay_elapsed, peer>>

(***************************************************************************)
(* A concurrent run of the script on the same input, with the same key and *)
(* the same cache directory: its calls of the cached function.  joblib     *)
(* looks the key up, computes on a miss and stores the result; it holds no *)
(* lock from the lookup to the store.  That run too calls once per URL.    *)
(***************************************************************************)
\* the keys the other run has a requests.post call out for
PeerAwaited == {k \in DOMAIN peer : peer[k] = "out"}

\* lines 42-75: a worker of the other run misses and calls requests.post
PeerStart(url) ==
    /\ pc \in {"submitting", "as_completed"}
    /\ has_source(unique_sources, url)
    /\ cache_key(api_key, url) \notin DOMAIN cache
    /\ cache_key(api_key, url) \notin DOMAIN peer
    /\ peer' = (cache_key(api_key, url) :> "out") @@ peer
    /\ net_issued' = Incremented(net_issued, cache_key(api_key, url))
    /\ UNCHANGED <<files, cache, net_returned, run, pc, outcome, api_key, setting,
                   delay_elapsed, locals, calls, cache_accesses>>

\* lines 75-77: its requests.post returns and the response is stored
PeerResponse(k, response) ==
    /\ k \in PeerAwaited
    /\ peer' = [peer EXCEPT ![k] = "over"]
    /\ cache' = cache_store(cache, k, response)
    /\ net_returned' = Incremented(net_returned, k)
    /\ UNCHANGED <<files, net_issued, run, pc, outcome, api_key, setting, delay_elapsed,
                   locals, calls, cache_accesses>>

\* line 75: its requests.post raises
PeerNetworkError(k) ==
    /\ k \in PeerAwaited
    /\ peer' = [peer EXCEPT ![k] = "over"]
    /\ UNCHANGED <<files, store, run, pc, outcome, api_key, setting, delay_elapsed, locals,
                   calls, cache_accesses>>

(***************************************************************************)
(* Time passes: API_REQUEST_DELAY since the last requests.post call.       *)
(***************************************************************************)
TimePasses ==
    /\ ~delay_elapsed
    /\ delay_elapsed' = TRUE
    /\ UNCHANGED <<files, store, run, pc, outcome, api_key, setting, peer, locals, calls,
                   cache_accesses>>

Next ==
    \/ Configure
    \/ ReadInput
    \/ NoSources
    \/ CollectSources
    \/ AssignNumbers
    \/ Submit
    \/ \E i \in 1..Len(futures) : AsCompleted(i)
    \/ Join
    \/ Rewrite
    \/ WriteOutput
    \/ WriteOutputError
    \/ \E i \in 1..Len(futures) : WorkerStart(i)
    \/ \E i \in Awaited : \E response \in ResponsesOf(service) : WorkerResponse(i, response)
    \/ \E i \in 1..Len(futures) : WorkerNetworkError(i)
    \/ \E i \in 1..Len(futures) : WorkerCacheError(i)
    \/ \E i \in 1..Len(futures) : WorkerError(i)
    \/ TimePasses

NextRuns ==
    \/ Next
    \/ Restart

NextShared ==
    \/ Next
    \/ \E i \in 1..Len(unique_sources) : PeerStart(unique_sources[i].url)
    \/ \E k \in PeerAwaited : \E response \in ResponsesOf(service) : PeerResponse(k, response)
    \/ \E k \in PeerAwaited : PeerNetworkError(k)

NextPool ==
    \/ Next
    \/ \E i \in 1..Len(futures) : WorkerBlocked(i)

\* one run of the script
Spec == Init /\ [][Next]_vars

\* one run, and the calls of a second one that shares its cache directory
SpecShared == InitShared /\ [][NextShared]_vars

\* one run, SOURCE_PATTERN.finditer applied to the documents of InitPattern
SpecPattern == InitPattern /\ [][Next]_vars

\* one run, get_apa_citation applied to the contents of ContentResponses
SpecCitation == InitCitation /\ [][Next]_vars

\* one run with a small pool against a service that may leave a request
\* without an answer
SpecPool == InitPool /\ [][NextPool]_vars

\* up to MaxRuns runs of the script, one after the other
SpecRuns == InitRuns /\ [][NextRuns]_vars

(***************************************************************************)
(* What the claims speak of, stated from the input alone.                  *)
(***************************************************************************)
\* the distinct URLs among the markers
MarkerUrls == {matches[i].group2 : i \in DOMAIN matches}

\* the index of the first marker with this URL
FirstAppearance(url) ==
    CHOOSE i \in DOMAIN matches :
        /\ matches[i].group2 = url
        /\ \A j \in 1..(i - 1) : matches[j].group2 # url

\* the 1-based rank of a URL by first appearance
Rank(url) ==
    Cardinality({v \in MarkerUrls : FirstAppearance(v) <= FirstAppearance(url)})

UrlOfRank(n) == CHOOSE u \in MarkerUrls : Rank(u) = n

\* the citation resolved for a URL
ApaOf(url) ==
    LET i == CHOOSE j \in DOMAIN unique_sources : unique_sources[j].url = url
    IN  unique_sources[i].apa

\* the inline reference to source n
Reference(n) ==
    <<"[", "[">> \o IntToStr(n) \o <<"]", "]", "(", "#", "s", "o", "u", "r", "c", "e", "-">>
        \o IntToStr(n) \o <<")">>

\* the anchor of source n
Anchor(n) ==
    <<"<", "a", " ", "i", "d", "=", "\"", "s", "o", "u", "r", "c", "e", "-">> \o IntToStr(n)
        \o <<"\"", ">", "<", "/", "a", ">">>

\* the Sources entry of source n
Entry(n, apa) == Anchor(n) \o IntToStr(n) \o <<".", " ">> \o apa \o <<"\n">>

\* the original text from offset pos on, markers i.. replaced by the
\* references of their URLs' ranks, everything else kept
RECURSIVE RewrittenFrom(_, _, _)
RewrittenFrom(text, i, pos) ==
    IF i > Len(matches) THEN Slice(text, pos, Len(text))
    ELSE Slice(text, pos, matches[i].start) \o Reference(Rank(matches[i].group2))
             \o RewrittenFrom(text, i + 1, matches[i].end)

ExpectedBody == RStrip(RewrittenFrom(Get(content), 1, 0))

\* the entries of sources 1..n
RECURSIVE EntriesUpTo(_)
EntriesUpTo(n) ==
    IF n = 0 THEN <<>>
    ELSE EntriesUpTo(n - 1) \o Entry(n, Get(ApaOf(UrlOfRank(n))))

ExpectedSources ==
    <<"\n", "\n", "#", " ", "S", "o", "u", "r", "c", "e", "s", "\n", "\n">>
        \o EntriesUpTo(Cardinality(MarkerUrls))

\* the numbers have been assigned
Numbered ==
    \/ pc \in {"submitting", "as_completed", "joined", "rewritten"}
    \/ pc = "done" /\ outcome \in {"written", "write_error"}

\* replacement has begun or is over
Rewriting ==
    \/ pc \in {"joined", "rewritten"}
    \/ pc = "done" /\ outcome \in {"written", "write_error"}

\* this run has written the output file
Written == pc = "done" /\ outcome = "written"

(***************************************************************************)
(* C1.  Whatever the order in which the fetches complete, the number of    *)
(* each unique URL is its 1-based rank by first appearance among the       *)
(* markers, and the output written is the one these ranks determine.       *)
(***************************************************************************)
C1_NumberingByFirstAppearance ==
    /\ Numbered =>
          /\ {unique_sources[i].url : i \in DOMAIN unique_sources} = MarkerUrls
          /\ \A i \in DOMAIN unique_sources :
                unique_sources[i].number = Some(Rank(unique_sources[i].url))
    /\ Written => output_file = Some(ExpectedBody \o ExpectedSources)

\* a later URL's fetch has completed and been taken before an earlier one's
C1_Witness ==
    /\ pc = "as_completed"
    /\ Len(matches) = 3
    /\ Len(unique_sources) = 2
    /\ yielded = {2}
    /\ futures[1].state = "running"
    /\ unique_sources[2].number = Some(2)

(***************************************************************************)
(* C2.  Replacement and the writing of the output begin only when every    *)
(* unique URL has been dispatched, its fetch is over and its citation is   *)
(* set: nothing is pending or in flight from then on.                      *)
(***************************************************************************)
C2_JoinBarrier ==
    Rewriting =>
        /\ Len(futures) = Len(unique_sources)
        /\ \A i \in DOMAIN futures : futures[i].state = "finished"
        /\ \A i \in DOMAIN unique_sources : IsSome(unique_sources[i].apa)
        /\ yielded = DOMAIN futures

\* the output is written after three fetches that ended in three ways
C2_Witness ==
    /\ Written
    /\ Len(futures) = 3
    /\ futures[1].event = "response"
    /\ futures[2].event = "network_error"
    /\ futures[3].event = "worker_error"

(***************************************************************************)
(* C3.  A failed fetch (the request raised, the cache raised, the worker   *)
(* raised, the status was not 200, the body was malformed) leaves a        *)
(* bracketed placeholder holding the URL as that URL's citation; the       *)
(* citation of every other URL is what its own fetch returned, an empty    *)
(* return being replaced by the placeholder of that URL; and the run goes  *)
(* on to write the output.                                                 *)
(***************************************************************************)
\* the citation came from a well-formed response of status 200
WellFormed(response) ==
    /\ response.status_code = 200
    /\ response.json.valid
    /\ IsSome(response.json.choices)
    /\ Len(Get(response.json.choices)) > 0
    /\ IsSome(Get(response.json.choices)[1])

FetchFailed(future) ==
    \/ future.raised
    \/ ~IsSome(future.outcome)
    \/ Get(future.outcome).raised
    \/ ~WellFormed(Get(future.outcome).response)

Contains(s, p) == Find(s, p, 0) >= 0

IsPlaceholderFor(apa, url) ==
    /\ apa # <<>>
    /\ Head(apa) = "["
    /\ apa[Len(apa)] = "]"
    /\ Contains(apa, url)

FailedToGenerate(url) ==
    <<"[", "F", "a", "i", "l", "e", "d", " ", "t", "o", " ", "g", "e", "n", "e", "r", "a", "t", "e",
      " ", "A", "P", "A", " ", "f", "o", "r", " ">> \o url \o <<"]">>

\* the failed fetches have placeholders
FailuresArePlaceholders ==
    \A i \in DOMAIN futures :
        FetchFailed(futures[i]) =>
            IsPlaceholderFor(Get(unique_sources[i].apa), unique_sources[i].url)

\* a run with a failed fetch is not cut short
FailuresDoNotAbort ==
    (pc = "done" /\ \E i \in DOMAIN futures : FetchFailed(futures[i]))
        => outcome \in {"written", "write_error"}

C3_FailureIsolated ==
    /\ Rewriting =>
          /\ FailuresArePlaceholders
          /\ \A i, j \in DOMAIN futures :
                (i # j /\ FetchFailed(futures[i]) /\ ~FetchFailed(futures[j])) =>
                    unique_sources[j].apa =
                        Some(IF futures[j].result = <<>>
                             THEN FailedToGenerate(unique_sources[j].url)
                             ELSE futures[j].result)
    /\ FailuresDoNotAbort

\* the claim as written: every other citation is exactly its fetch's return
C3_AsClaimed ==
    /\ Rewriting =>
          /\ FailuresArePlaceholders
          /\ \A i, j \in DOMAIN futures :
                (i # j /\ FetchFailed(futures[i]) /\ ~FetchFailed(futures[j])) =>
                    unique_sources[j].apa = Some(futures[j].result)
    /\ FailuresDoNotAbort

\* the output is written with one fetch failed and another one's citation
\* returned by the service
C3_Witness ==
    /\ Written
    /\ Len(futures) = 2
    /\ FetchFailed(futures[1])
    /\ futures[1].event = "response"
    /\ ~FetchFailed(futures[2])
    /\ futures[2].result = <<"C", "i", "t", "e", "-", "A">>
    /\ unique_sources[2].apa = Some(<<"C", "i", "t", "e", "-", "A">>)

(***************************************************************************)
(* C4.  In one run get_apa_citation is called at most once for a URL, and  *)
(* exactly once for every unique URL by the time the fetches are joined,   *)
(* however many markers name it; the source entries hold no URL twice.     *)
(***************************************************************************)
C4_OneFetchPerUrl ==
    /\ \A i, j \in DOMAIN unique_sources :
          unique_sources[i].url = unique_sources[j].url => i = j
    /\ DOMAIN calls \subseteq MarkerUrls
    /\ \A url \in DOMAIN calls : calls[url] = 1
    /\ Rewriting => DOMAIN calls = MarkerUrls

\* in a second run, a URL that two markers name has been fetched once
C4_Witness ==
    /\ run = 2
    /\ pc = "joined"
    /\ Len(matches) = 2
    /\ MarkerUrls = {matches[1].group2}
    /\ calls[matches[1].group2] = 1

(***************************************************************************)
(* C5.  The output written ends with the Sources section: the heading and  *)
(* then, for n = 1..N in ascending order, N the number of distinct URLs    *)
(* among the markers, one line with the anchor source-n, the number n and  *)
(* the citation resolved for the URL of rank n.                            *)
(***************************************************************************)
EndsWith(s, p) == Len(s) >= Len(p) /\ SubSeq(s, Len(s) - Len(p) + 1, Len(s)) = p

\* how often p occurs in s
Occurrences(s, p, from) == Cardinality(OccurrencesFrom(s, p, from))

C5_SourcesSection ==
    Written =>
        /\ EndsWith(Get(output_file), ExpectedSources)
        /\ \A n \in 1..Cardinality(MarkerUrls) :
              Occurrences(Get(output_file), Anchor(n), 0) = 1
        /\ Occurrences(Get(output_file), <<"<", "a", " ", "i", "d", "=">>, 0)
              = Cardinality(MarkerUrls)

\* three markers, two distinct URLs, two entries
C5_Witness ==
    /\ Written
    /\ Len(matches) = 3
    /\ Cardinality(MarkerUrls) = 2
    /\ Occurrences(Get(output_file), <<"<", "a", " ", "i", "d", "=">>, 0) = 2

(***************************************************************************)
(* C6.  Every marker is replaced by exactly the text [N](#source-N), N the *)
(* number of its URL: the document                                         *)
(*   A ([X](https://a.com)) B ([Y](https://b.com)) C ([X](https://a.com))  *)
(* with the citations Cite-A and Cite-B is written as                      *)
(*   A [1](#source-1) B [2](#source-2) C [1](#source-1)                    *)
(* followed by the Sources entries 1. Cite-A and 2. Cite-B.                *)
(***************************************************************************)
\* the reference as the claim and the tests write it
SingleBracketReference(n) ==
    <<"[">> \o IntToStr(n) \o <<"]", "(", "#", "s", "o", "u", "r", "c", "e", "-">>
        \o IntToStr(n) \o <<")">>

RECURSIVE SingleBracketRewrittenFrom(_, _, _)
SingleBracketRewrittenFrom(text, i, pos) ==
    IF i > Len(matches) THEN Slice(text, pos, Len(text))
    ELSE Slice(text, pos, matches[i].start)
             \o SingleBracketReference(Rank(matches[i].group2))
             \o SingleBracketRewrittenFrom(text, i + 1, matches[i].end)

ScenarioDocument == Fragments[1] \o Fragments[2] \o Fragments[3]

ScenarioResolved ==
    /\ content = Some(ScenarioDocument)
    /\ Written
    /\ unique_sources[1].apa = Some(<<"C", "i", "t", "e", "-", "A">>)
    /\ unique_sources[2].apa = Some(<<"C", "i", "t", "e", "-", "B">>)

ScenarioOutput ==
    <<"A", " ">> \o SingleBracketReference(1) \o <<" ", "B", " ">> \o SingleBracketReference(2)
        \o <<" ", "C", " ">> \o SingleBracketReference(1)
        \o <<"\n", "\n", "#", " ", "S", "o", "u", "r", "c", "e", "s", "\n", "\n">>
        \o Entry(1, <<"C", "i", "t", "e", "-", "A">>)
        \o Entry(2, <<"C", "i", "t", "e", "-", "B">>)

C6_AsClaimed ==
    /\ Written =>
          StartsWith(Get(output_file), RStrip(SingleBracketRewrittenFrom(Get(content), 1, 0)))
    /\ ScenarioResolved => output_file = Some(ScenarioOutput)

(***************************************************************************)
(* C7.  In the output written every marker occurrence has, at its place,   *)
(* the reference with the number of its URL; that number's anchor occurs   *)
(* exactly once, in the Sources section after the last reference; and the  *)
(* occurrences of one URL have the same reference.                         *)
(***************************************************************************)
\* where the reference of marker i starts in the output
RECURSIVE ReferenceOffset(_)
ReferenceOffset(i) ==
    IF i = 1 THEN matches[1].start
    ELSE ReferenceOffset(i - 1) + Len(Reference(Rank(matches[i - 1].group2)))
             + (matches[i].start - matches[i - 1].end)

\* the text of the output at the place of marker i
ReferenceAt(i) ==
    Slice(Get(output_file), ReferenceOffset(i),
          ReferenceOffset(i) + Len(Reference(Rank(matches[i].group2))))

C7_EveryMarkerReferenced ==
    Written =>
        \A i \in DOMAIN matches :
            LET n == Rank(matches[i].group2)
                anchors == OccurrencesFrom(Get(output_file), Anchor(n), 0)
            IN  /\ ReferenceAt(i) = Reference(n)
                /\ Cardinality(anchors) = 1
                /\ \A at \in anchors : at > ReferenceOffset(Len(matches))
                /\ \A j \in DOMAIN matches :
                      matches[j].group2 = matches[i].group2 => ReferenceAt(j) = ReferenceAt(i)

\* a URL named by three markers: three references, one entry
C7_Witness ==
    /\ Written
    /\ Len(matches) = 3
    /\ Cardinality(MarkerUrls) = 1
    /\ Occurrences(Get(output_file), Reference(1), 0) = 3
    /\ Occurrences(Get(output_file), Anchor(1), 0) = 1

(***************************************************************************)
(* C8.  The body of the output written is the original text with each      *)
(* marker span replaced by its reference and every character outside the   *)
(* spans kept in place, trailing whitespace trimmed; the Sources heading   *)
(* follows it at once.                                                     *)
(***************************************************************************)
C8_SpanExactRewrite ==
    Written =>
        /\ StartsWith(Get(output_file), ExpectedBody)
        /\ Slice(Get(output_file), Len(ExpectedBody), Len(ExpectedBody) + 13)
              = <<"\n", "\n", "#", " ", "S", "o", "u", "r", "c", "e", "s", "\n", "\n">>
        /\ Len(Get(output_file)) = Len(ExpectedBody) + Len(ExpectedSources)

\* three markers of three span lengths, and trailing whitespace trimmed
C8_Witness ==
    /\ Written
    /\ Len(matches) = 3
    /\ Cardinality({matches[i].end - matches[i].start : i \in DOMAIN matches}) >= 2
    /\ Cardinality({Len(matches[i].group2) : i \in DOMAIN matches}) >= 2
    /\ Cardinality({Len(matches[i].group1) : i \in DOMAIN matches}) >= 2
    /\ matches[1].start > 0
    /\ Len(ExpectedBody) < Len(RewrittenFrom(Get(content), 1, 0))

(***************************************************************************)
(* C9.  A document without markers ends the run as a no-op: no source      *)
(* entry, no future, no get_apa_citation call, no cache access, no network *)
(* request, nothing built and nothing written, and the run ends with the   *)
(* early return.                                                           *)
(***************************************************************************)
C9_NoMarkersNoOp ==
    (IsSome(content) /\ matches = <<>>) =>
        /\ pc \in {"matched", "done"}
        /\ pc = "done" => outcome = "no_sources"
        /\ unique_sources = <<>>
        /\ futures = <<>>
        /\ calls = <<>>
        /\ cache_accesses = 0
        /\ cache = <<>>
        /\ net_issued = <<>>
        /\ final_content = None
        /\ output_file = None

\* a run over text with links but no marker has returned
C9_Witness ==
    /\ pc = "done"
    /\ outcome = "no_sources"
    /\ content = Some(Fragments[5] \o Fragments[5])

(***************************************************************************)
(* C10.  For one (api key, URL, prompt), over the calls of one run and of  *)
(* the runs that follow it: at most one network call returns a response;   *)
(* that response is stored, never replaced, and is what every later call   *)
(* returns, with no further network request for the key.                   *)
(***************************************************************************)
KeyOf(i) == cache_key(api_key, future_to_url(unique_sources, i))

C10_StoredOnce ==
    /\ \A k \in DOMAIN net_returned : net_returned[k] = 1 /\ k \in DOMAIN cache
    /\ \A i \in DOMAIN futures :
          /\ futures[i].event \in {"hit", "response"} =>
                /\ KeyOf(i) \in DOMAIN cache
                /\ futures[i].outcome = Some(Returned(cache[KeyOf(i)]))
          /\ futures[i].event = "hit" =>
                futures[i].result = get_apa_citation(api_key, unique_sources[i].url,
                                                     Returned(cache[KeyOf(i)]))
          /\ futures[i].state = "running" => KeyOf(i) \notin DOMAIN cache

Queued == {i \in DOMAIN futures : futures[i].state = "pending"}

Blocked == {i \in DOMAIN futures : futures[i].state = "blocked"}

C11_AsClaimed ==
    /\ Cardinality(Running) <= max_workers
    /\ max_workers <= MAX_WORKERS
    /\ Queued # {} => Cardinality(Blocked) < max_workers

(***************************************************************************)
(* C12.  A requests.post call is issued only when API_REQUEST_DELAY has    *)
(* passed since the previous one was issued, whichever thread issued it; a *)
(* call answered from the cache waits for nothing.                         *)
(***************************************************************************)
C12_AsClaimed ==
    [][(net_issued' # net_issued) => delay_elapsed]_vars

(***************************************************************************)
(* C13.  When the cache cannot be read or written during a fetch, that     *)
(* URL does not get a placeholder citation and the run does not go on to   *)
(* write its output: the failure ends the run.                             *)
(***************************************************************************)
CacheFailed(i) == futures[i].event = "cache_error"

C13_AsClaimed ==
    \A i \in DOMAIN futures :
        CacheFailed(i) =>
            /\ ~IsPlaceholderFor(futures[i].result, unique_sources[i].url)
            /\ ~Written

(***************************************************************************)
(* C14.  A run that ends on a fatal condition (no API key, the input file  *)
(* missing or unreadable, the output file unwritable) exits with a status  *)
(* that is not zero and is not the status of a run that wrote its output.  *)
(***************************************************************************)
FatalOutcomes == {"config_error", "input_error", "write_error"}

C14_AsClaimed ==
    (pc = "done" /\ outcome \in FatalOutcomes) =>
        /\ exit_status(outcome) # 0
        /\ exit_status(outcome) # exit_status("written")

(***************************************************************************)
(* C15.  For a response of status 200 with a non-empty choices list,       *)
(* get_apa_citation returns, and never a placeholder: the text between the *)
(* first "[[[" and the "]]]" after it when the content has both, else the  *)
(* whole content, stripped of surrounding whitespace; less one leading     *)
(* "- " or "* " and then one leading digit, dot and space, when there.     *)
(***************************************************************************)
\* the citation the claim describes for a content
ExpectedCitation(text) ==
    LET stripped == Strip(text)
        open == Find(stripped, <<"[", "[", "[">>, 0)
        close == IF open < 0 THEN -1 ELSE Find(stripped, <<"]", "]", "]">>, open + 3)
        body == IF close < 0 THEN stripped ELSE Strip(Slice(stripped, open + 3, close))
        unmarked == IF StartsWith(body, <<"-", " ">>) \/ StartsWith(body, <<"*", " ">>)
                    THEN Slice(body, 2, Len(body))
                    ELSE body
    IN  IF /\ Len(unmarked) >= 3
           /\ IsDigit(unmarked[1])
           /\ unmarked[2] = "."
           /\ unmarked[3] = " "
        THEN Slice(unmarked, 3, Len(unmarked))
        ELSE unmarked

\* the message content of a well-formed response
ContentOf(response) == Get(Get(response.json.choices)[1])

C15_AsClaimed ==
    \A i \in DOMAIN futures :
        (/\ futures[i].event = "response"
         /\ WellFormed(Get(futures[i].outcome).response)) =>
            futures[i].result = ExpectedCitation(ContentOf(Get(futures[i].outcome).response))

(***************************************************************************)
(* C16.  The extractor returns the substrings of the form ([text](url)),   *)
(* text not empty and without "]", url not empty and without ")": each     *)
(* with its exact span, text and url, from left to right and without       *)
(* overlap, and it leaves out such a substring only where it starts inside *)
(* one returned.  A link without the outer parentheses, or with            *)
(* parentheses for the square brackets, is no occurrence.                  *)
(***************************************************************************)
\* text[a:b] is "([" label "](" url "))" with the label ending at offset j
MarkerSplit(text, a, j, b) ==
    /\ a + 3 <= j
    /\ j + 5 <= b
    /\ text[a + 1] = "("
    /\ text[a + 2] = "["
    /\ text[j + 1] = "]"
    /\ text[j + 2] = "("
    /\ text[b - 1] = ")"
    /\ text[b] = ")"
    /\ \A p \in (a + 3)..j : text[p] # "]"
    /\ \A p \in (j + 3)..(b - 2) : text[p] # ")"

IsMarker(text, a, b) == \E j \in a..b : MarkerSplit(text, a, j, b)

C16_ExactMarkers ==
    pc = "matched" =>
        LET text == Get(content)
        IN  /\ \A i \in DOMAIN matches :
                  \E j \in matches[i].start..matches[i].end :
                      /\ MarkerSplit(text, matches[i].start, j, matches[i].end)
                      /\ matches[i].group1 = Slice(text, matches[i].start + 2, j)
                      /\ matches[i].group2 = Slice(text, j + 2, matches[i].end - 2)
            /\ \A i \in 1..(Len(matches) - 1) : matches[i].end <= matches[i + 1].start
            /\ \A a \in 0..Len(text), b \in 0..Len(text) :
                  IsMarker(text, a, b) =>
                      \E i \in DOMAIN matches :
                          \/ matches[i].start = a /\ matches[i].end = b
                          \/ matches[i].start < a /\ a < matches[i].end
            /\ text \in {PatternPieces[7], PatternPieces[8]} => matches = <<>>

\* "([([x](u))": the occurrence returned starts at the first parenthesis,
\* its text is "([x", and the marker inside it is left out
C16_Witness ==
    /\ pc = "matched"
    /\ content = Some(PatternPieces[1] \o PatternPieces[3] \o PatternPieces[6])
    /\ Len(matches) = 1
    /\ matches[1].start = 0
    /\ matches[1].end = 10
    /\ matches[1].group1 = <<"(", "[", "x">>
    /\ IsMarker(Get(content), 2, 10)

(***************************************************************************)
(* C17.  When the first fetch is submitted every unique URL has its        *)
(* number: no future exists, and no get_apa_citation call or request has   *)
(* been made, while a source entry is without a number.                    *)
(***************************************************************************)
C17_NumberedBeforeDispatch ==
    (futures # <<>> \/ calls # <<>> \/ net_issued # <<>>) =>
        /\ {unique_sources[i].url : i \in DOMAIN unique_sources} = MarkerUrls
        /\ \A i \in DOMAIN unique_sources : IsSome(unique_sources[i].number)

\* the first of three fetches is in flight while the others are yet to be
\* submitted
C17_Witness ==
    /\ pc = "submitting"
    /\ Len(unique_sources) = 3
    /\ Len(futures) = 1
    /\ futures[1].state = "running"
    /\ \A i \in DOMAIN unique_sources : unique_sources[i].number = Some(i)

(***************************************************************************)
(* C18.  Of the tasks that ask for one key not cached before, worker       *)
(* threads or concurrent runs on one cache directory, one at most makes    *)
(* the network call: no two have a request for the key out at once, and no *)
(* two requests for it are issued.                                         *)
(***************************************************************************)
C18_AsClaimed ==
    /\ \A i, j \in Awaited : KeyOf(i) = KeyOf(j) => i = j
    /\ \A i \in Awaited : KeyOf(i) \notin PeerAwaited

(***************************************************************************)
(* C19.  A request that is never answered is cut off and its URL given the *)
(* failure placeholder, so that the run passes the join and ends: the run  *)
(* is never left, every other fetch taken, waiting for a call that will    *)
(* not return.                                                             *)
(***************************************************************************)
\* as_completed has nothing left to yield but calls that never return
WaitingForever ==
    /\ pc = "as_completed"
    /\ Blocked # {}
    /\ \A i \in DOMAIN futures \ Blocked : futures[i].state = "finished" /\ i \in yielded

C19_AsClaimed == ~WaitingForever

(***************************************************************************)
(* C20.  The citation of a source entry is written once during resolution, *)
(* from unset to the text its fetch returned or to a placeholder, and is   *)
(* never changed afterwards; when the Sources section is built the         *)
(* citation of every entry is set and is not empty.                        *)
(***************************************************************************)
C20_CitationWrittenOnce ==
    /\ [](Rewriting =>
            \A i \in DOMAIN unique_sources :
                /\ IsSome(unique_sources[i].apa)
                /\ Get(unique_sources[i].apa) # <<>>)
    /\ [][\A i \in DOMAIN unique_sources :
             /\ i \in DOMAIN unique_sources'
             /\ unique_sources'[i].apa # unique_sources[i].apa =>
                   /\ unique_sources[i].apa = None
                   /\ i \in DOMAIN futures
                   /\ futures[i].state = "finished"
                   /\ unique_sources'[i].apa \in
                         {Some(futures[i].result), Some(FailedToGenerate(unique_sources[i].url))}
                   /\ unique_sources'[i].apa # Some(<<>>)]_vars

\* a written run in which one fetch returned a citation and another nothing
C20_Witness ==
    /\ Written
    /\ \E i, j \in DOMAIN futures :
          /\ ~futures[i].raised
          /\ futures[i].result = <<>>
          /\ unique_sources[i].apa = Some(FailedToGenerate(unique_sources[i].url))
          /\ futures[j].result # <<>>
          /\ unique_sources[j].apa = Some(futures[j].result)

(***************************************************************************)
(* C21.  The cache keeps whatever response the service returned, a non-200 *)
(* one included: once a response other than a success is stored for an     *)
(* (api key, URL, prompt), every later call of get_apa_citation for it     *)
(* returns the failure placeholder of that response, and no other network  *)
(* call returns for it; a fetch that raised leaves no entry.               *)
(***************************************************************************)
\* the futures whose get_apa_citation call has returned
CallsReturned == {i \in DOMAIN futures : futures[i].state = "finished" /\ ~futures[i].raised}

\* the response stored for the key of future i is not a success
FailureStored(i) == KeyOf(i) \in DOMAIN cache /\ cache[KeyOf(i)].status_code # 200

C21_AsClaimed ==
    \A i \in CallsReturned :
        /\ FailureStored(i) =>
              /\ futures[i].result =
                    PLACEHOLDER_FAILED_PREFIX \o unique_sources[i].url \o <<" ", "-", " ">>
                        \o error_message(cache[KeyOf(i)]) \o <<"]">>
              /\ net_returned[KeyOf(i)] = 1
        /\ futures[i].event = "network_error" => KeyOf(i) \notin DOMAIN cache

=============================================================================
